---- MODULE Spec2Model ----
(***************************************************************************)
(* Voice dictation core: VoiceTranscriptionService.transcribeAudio (with  *)
(* its error classification) and the controller's startRecording.         *)
(*                                                                         *)
(* A string is a sequence of fragments.  The fragments are chosen so that  *)
(* a needle of the code ("ENOTFOUND", "FFmpeg", "insufficient credits",    *)
(* ...) occurs in a string iff it is one of the string's fragments, so     *)
(* String.includes is membership among the fragments, concatenation is \o  *)
(* and toLowerCase maps each fragment to its lower-case form.  An optional *)
(* value (undefined or a value) is the empty set or a singleton.           *)
(*                                                                         *)
(* VoiceTranscriptionService.ts holds the class twice; the model follows   *)
(* the first definition (lines 5-114), the one with the network checks.    *)
(* Each operation is modelled as one call, from its first statement to    *)
(* the value it resolves with or the exception it rejects with; the calls *)
(* share no state, so one call of each is every call.                     *)
(***************************************************************************)
EXTENDS Naturals, Sequences, FiniteSets

\* Longest error message, in fragments, the account client produces.
MaxLen == 2

\* -------------------------------------------------------------------- state

VARIABLES
    tpc,            \* where the call is: start, fetched, transcribed, caught, done
    language,       \* the language argument, optional
    isOrgAccount,   \* set from fetchMe's profile
    tResult,        \* what clineAccountService.transcribeAudio resolved with
    tError,         \* the error the outer catch caught
    tTelemetry,     \* events captureVoiceTranscriptionCompleted recorded
    tTelemetryFailed, \* the telemetry import or call threw
    tOutcome        \* the value transcribeAudio resolved with, optional

tvars == <<tpc, language, isOrgAccount, tResult, tError, tTelemetry,
           tTelemetryFailed, tOutcome>>

VARIABLES
    rpc,            \* start, recording, result, initTask, caught, authRequest, done
    userInfo,       \* what getInfo() returned
    rResult,        \* what the recorder backend resolved with, optional
    exception,      \* the exception the top-level catch caught
    raisedBy,       \* the step that raised it
    selectedOption, \* the dialog's answer, optional
    recorderCalls,  \* calls of audioRecordingService.startRecording
    tasks,          \* the prompt of each controller.initTask call
    initTaskDone,   \* initTask resolved
    rTelemetry,     \* "recording started" events recorded
    rTelemetryFailed, \* captureVoiceRecordingStarted threw
    dialogs,        \* the messages shown by showMessage
    authRequests,   \* calls of authService.createAuthRequest
    returned,       \* the RecordingResult the call resolved with, optional
    thrown          \* the exception the call rejected with, optional

rvars == <<rpc, userInfo, rResult, exception, raisedBy, selectedOption,
           recorderCalls, tasks, initTaskDone, rTelemetry, rTelemetryFailed,
           dialogs, authRequests, returned, thrown>>

vars == <<tvars, rvars>>

\* ------------------------------------------------------------------ strings

Str(maxLen, frags) == UNION {[1..n -> frags] : n \in 0..maxLen}

includes(s, needle) == \E i \in DOMAIN s : s[i] = needle

LowerFragment(f) ==
    CASE f = "ENOTFOUND" -> "enotfound"
      [] f = "ECONNREFUSED" -> "econnrefused"
      [] f = "ETIMEDOUT" -> "etimedout"
      [] f = "ECONNRESET" -> "econnreset"
      [] f = "Network Error" -> "network error"
      [] f = "Insufficient Credits" -> "insufficient credits"
      [] f = "Invalid Format" -> "invalid format"
      [] f = "Exceeds" -> "exceeds"
      [] f = "FFmpeg" -> "ffmpeg"
      [] OTHER -> f

toLowerCase(s) == [i \in DOMAIN s |-> LowerFragment(s[i])]

\* a || b on optional strings: undefined and "" are falsy
Truthy(o) == o # {} /\ o # {<<>>}
OrElse(a, b) == IF Truthy(a) THEN a ELSE b
ValueOf(o) == CHOOSE v \in o : TRUE

\* ------------------------------------------------- transcription messages

NoInternetMsg == <<"No internet connection. Please check your network and try again.">>
CannotConnectMsg == <<"Cannot connect to transcription service. Please check your internet connection.">>
TimedOutMsg == <<"Connection timed out. Please check your internet connection and try again.">>
NetworkErrorMsg == <<"Network error. Please check your internet connection.">>
ReauthenticateMsg == <<"Authentication failed. Please reauthenticate your Cline account">>
InsufficientCreditsMsg == <<"Insufficient credits for transcription service.">>
InvalidAudioMsg == <<"Invalid audio format. Please try recording again.">>
InvalidRequestMsg == <<"Invalid audio format or request data.">>
ServerErrorMsg == <<"Transcription server error. Please try again later.">>
TranscriptionFailedPrefix == <<"Transcription failed: ">>
NetworkErrorPrefix == <<"Network error: ">>

\* --------------------------------------------------------- error objects

MessageFragments ==
    {"ENOTFOUND", "ECONNREFUSED", "ETIMEDOUT", "ECONNRESET", "Network Error",
     "network error", "insufficient balance", "Insufficient Credits",
     "invalid audio", "Invalid Format", "Exceeds", "limit", "x"}

Messages == Str(MaxLen, MessageFragments)

HttpStatuses == {400, 401, 402, 500, 503}

\* The thrown values, by shape.  An axios error that carries a response has a
\* status and the body's error and message fields; one of its three texts is
\* the given message m and the other two are values that decide which text
\* line 48 extracts.  An axios error without a response has only its own
\* message.  Anything else that is thrown is an Error or some other value.
ErrorShapes ==
    {"bodyError", "bodyErrorAndMessage", "bodyMessage", "emptyErrorBodyMessage",
     "ownMessage", "emptyBodyOwnMessage", "noResponse", "Error", "value"}

StatusesOf(shape) ==
    IF shape \in {"noResponse", "Error", "value"} THEN {0} ELSE HttpStatuses

ErrorOf(shape, st, m) ==
    LET mk(k, has, de, dm, own) ==
            [kind |-> k, hasResponse |-> has, status |-> st,
             dataError |-> de, dataMessage |-> dm, message |-> own]
    IN  CASE shape = "bodyError" -> mk("axios", TRUE, {m}, {}, <<"x">>)
          [] shape = "bodyErrorAndMessage" -> mk("axios", TRUE, {m}, {<<"ENOTFOUND">>}, <<"x">>)
          [] shape = "bodyMessage" -> mk("axios", TRUE, {}, {m}, <<"x">>)
          [] shape = "emptyErrorBodyMessage" -> mk("axios", TRUE, {<<>>}, {m}, <<"x">>)
          [] shape = "ownMessage" -> mk("axios", TRUE, {}, {}, m)
          [] shape = "emptyBodyOwnMessage" -> mk("axios", TRUE, {<<>>}, {<<>>}, m)
          [] shape = "noResponse" -> mk("axios", FALSE, {}, {}, m)
          [] OTHER -> mk(shape, FALSE, {}, {}, m)

NoError ==
    [kind |-> "none", hasResponse |-> FALSE, status |-> 0,
     dataError |-> {}, dataMessage |-> {}, message |-> <<>>]

\* result.text of a null or undefined result: a TypeError
TypeErrorOnResult ==
    [kind |-> "Error", hasResponse |-> FALSE, status |-> 0,
     dataError |-> {}, dataMessage |-> {},
     message |-> <<"Cannot read properties of undefined (reading 'text')">>]

isAxiosError(e) == e.kind = "axios"

\* error.response?.status
StatusOf(e) == IF e.hasResponse THEN {e.status} ELSE {}

\* error.response?.data?.error || error.response?.data?.message || error.message
ExtractMessage(e) == ValueOf(OrElse(e.dataError, OrElse(e.dataMessage, {e.message})))

\* ------------------------------------------------------- classification

\* case 400 without toLowerCase: the phrases are compared as they are
BadRequestRule_CaseSensitive(m) ==
    IF includes(m, "insufficient balance") \/ includes(m, "insufficient credits")
    THEN InsufficientCreditsMsg
    ELSE IF includes(m, "invalid audio") \/ includes(m, "invalid format")
    THEN InvalidAudioMsg
    ELSE IF includes(m, "exceeds") /\ includes(m, "limit")
    THEN m
    ELSE IF m # <<>> THEN m ELSE InvalidRequestMsg

\* case 400
BadRequestRule(m) ==
    IF \/ includes(toLowerCase(m), "insufficient balance")
       \/ includes(toLowerCase(m), "insufficient credits")
    THEN InsufficientCreditsMsg
    ELSE IF \/ includes(toLowerCase(m), "invalid audio")
            \/ includes(toLowerCase(m), "invalid format")
    THEN InvalidAudioMsg
    ELSE IF includes(toLowerCase(m), "exceeds") /\ includes(toLowerCase(m), "limit")
    THEN m
    ELSE IF m # <<>> THEN m ELSE InvalidRequestMsg

\* switch (status)
StatusRule(status, m) ==
    IF status = {401} THEN ReauthenticateMsg
    ELSE IF status = {402} THEN InsufficientCreditsMsg
    ELSE IF status = {400} THEN BadRequestRule(m)
    ELSE IF status = {500} THEN ServerErrorMsg
    ELSE TranscriptionFailedPrefix \o m

\* the axios branch with the status looked at before the network checks
ClassifyAxios_StatusFirst(e) ==
    LET status == StatusOf(e)
        message == ExtractMessage(e)
    IN  IF status \in {{400}, {401}, {402}, {500}} THEN StatusRule(status, message)
        ELSE IF includes(message, "ENOTFOUND") THEN NoInternetMsg
        ELSE IF includes(message, "ECONNREFUSED") THEN CannotConnectMsg
        ELSE IF includes(message, "ETIMEDOUT") \/ includes(message, "ECONNRESET")
        THEN TimedOutMsg
        ELSE IF includes(message, "Network Error") THEN NetworkErrorMsg
        ELSE StatusRule(status, message)

\* the axios branch without network checks: the status alone decides
ClassifyAxios_StatusOnly(e) == StatusRule(StatusOf(e), ExtractMessage(e))

\* the axios branch: the network checks first, then the status
ClassifyAxios(e) ==
    LET status == StatusOf(e)
        message == ExtractMessage(e)
    IN  IF includes(message, "ENOTFOUND") THEN NoInternetMsg
        ELSE IF includes(message, "ECONNREFUSED") THEN CannotConnectMsg
        ELSE IF includes(message, "ETIMEDOUT") \/ includes(message, "ECONNRESET")
        THEN TimedOutMsg
        ELSE IF includes(message, "Network Error") THEN NetworkErrorMsg
        ELSE StatusRule(status, message)

\* the checks on a plain error with the timeouts looked at before the refusals
ClassifyPlain_TimeoutFirst(e) ==
    LET errorMessage == e.message
    IN  IF includes(errorMessage, "ENOTFOUND") THEN NoInternetMsg
        ELSE IF includes(errorMessage, "ETIMEDOUT") \/ includes(errorMessage, "ECONNRESET")
        THEN TimedOutMsg
        ELSE IF includes(errorMessage, "ECONNREFUSED") \/ includes(errorMessage, "Network Error")
        THEN CannotConnectMsg
        ELSE NetworkErrorPrefix \o errorMessage

\* error instanceof Error ? error.message : String(error), and the checks on it
ClassifyPlain(e) ==
    LET errorMessage == e.message
    IN  IF includes(errorMessage, "ENOTFOUND") THEN NoInternetMsg
        ELSE IF includes(errorMessage, "ECONNREFUSED") \/ includes(errorMessage, "Network Error")
        THEN CannotConnectMsg
        ELSE IF includes(errorMessage, "ETIMEDOUT") \/ includes(errorMessage, "ECONNRESET")
        THEN TimedOutMsg
        ELSE NetworkErrorPrefix \o errorMessage

\* the catch block of transcribeAudio
ClassifyError(e) == IF isAxiosError(e) THEN ClassifyAxios(e) ELSE ClassifyPlain(e)

\* ------------------------------------------------------- transcribeAudio

\* fetchMe's profile: undefined, or organizations undefined or a list of
\* memberships, each its active flag
Profiles ==
    {{}} \cup {{[organizations |-> o]} :
                  o \in {{}, {<<>>}, {<<FALSE>>}, {<<TRUE>>}, {<<FALSE, TRUE>>}}}

\* userInfo?.organizations?.find((org) => org.active), then !!activeOrg
HasActiveOrg(profile) ==
    /\ profile # {}
    /\ ValueOf(profile).organizations # {}
    /\ \E i \in DOMAIN ValueOf(ValueOf(profile).organizations) :
           ValueOf(ValueOf(profile).organizations)[i]

Texts == {<<>>, <<"h">>, <<"h", "i">>}

\* the endpoint's answer: null/undefined, or an object whose text may be missing
Responses == {{}} \cup {{[text |-> t]} : t \in {{}} \cup {{x} : x \in Texts}}

\* result.text?.length
TextLength(r) == IF r.text = {} THEN {} ELSE {Len(ValueOf(r.text))}

TInit ==
    /\ tpc = "start"
    /\ language \in {{}, {"en"}}
    /\ isOrgAccount = FALSE
    /\ tResult = {}
    /\ tError = NoError
    /\ tTelemetry = <<>>
    /\ tTelemetryFailed = FALSE
    /\ tOutcome = {}

\* line 17-19: await fetchMe()
FetchMe ==
    /\ UNCHANGED rvars
    /\ tpc = "start"
    /\ \/ \E profile \in Profiles :
            /\ isOrgAccount' = HasActiveOrg(profile)
            /\ tpc' = "fetched"
            /\ UNCHANGED tError
       \/ \E shape \in ErrorShapes : \E st \in StatusesOf(shape) : \E m \in Messages :
            /\ tError' = ErrorOf(shape, st, m)
            /\ tpc' = "caught"
            /\ UNCHANGED isOrgAccount
    /\ UNCHANGED <<language, tResult, tTelemetry, tTelemetryFailed, tOutcome>>

\* line 21: await clineAccountService.transcribeAudio(audioBase64, language)
Transcribe ==
    /\ UNCHANGED rvars
    /\ tpc = "fetched"
    /\ \/ \E r \in Responses :
            /\ tResult' = r
            /\ tpc' = "transcribed"
            /\ UNCHANGED tError
       \/ \E shape \in ErrorShapes : \E st \in StatusesOf(shape) : \E m \in Messages :
            /\ tError' = ErrorOf(shape, st, m)
            /\ tpc' = "caught"
            /\ UNCHANGED tResult
    /\ UNCHANGED <<language, isOrgAccount, tTelemetry, tTelemetryFailed, tOutcome>>

\* line 26-40: the guarded telemetry call, then return { text: result.text }
TelemetryAndReturn ==
    /\ UNCHANGED rvars
    /\ tpc = "transcribed"
    /\ IF tResult = {}
       THEN \* result.text throws inside the inner try, and again at the return
            /\ tTelemetryFailed' = TRUE
            /\ tError' = TypeErrorOnResult
            /\ tpc' = "caught"
            /\ UNCHANGED <<tTelemetry, tOutcome>>
       ELSE /\ \/ /\ tTelemetry' = Append(tTelemetry,
                        [textLength |-> TextLength(ValueOf(tResult)),
                         language |-> language,
                         isOrgAccount |-> isOrgAccount])
                  /\ UNCHANGED tTelemetryFailed
               \/ /\ tTelemetryFailed' = TRUE
                  /\ UNCHANGED tTelemetry
            /\ tOutcome' = {[text |-> ValueOf(tResult).text, error |-> {}]}
            /\ tpc' = "done"
            /\ UNCHANGED tError
    /\ UNCHANGED <<language, isOrgAccount, tResult>>

\* line 41-112: the catch block
Catch ==
    /\ UNCHANGED rvars
    /\ tpc = "caught"
    /\ tOutcome' = {[text |-> {}, error |-> {ClassifyError(tError)}]}
    /\ tpc' = "done"
    /\ UNCHANGED <<language, isOrgAccount, tResult, tError, tTelemetry, tTelemetryFailed>>

transcribeAudio == FetchMe \/ Transcribe \/ TelemetryAndReturn \/ Catch

\* -------------------------------------------------------- startRecording

\* Longest error text, in fragments, the recorder backend reports.
MaxErrorLen == 3

SignInRequiredMsg == <<"Please sign in to your Cline Account to use Dictation.">>
UnknownErrorMsg == <<"Unknown error occurred">>
FFmpegMissingMsg ==
    <<"Your system is missing ", "FFmpeg",
      " and the installation instructions have been sent to the chat">>
DialogPrefix == <<"Voice recording error: ">>
signInAction == <<"Sign in to Cline">>

RecorderFragments ==
    {"FFmpeg", "ffmpeg", "Your system is missing ",
     " and the installation instructions have been sent to the chat", "x"}

RecorderTexts == Str(MaxErrorLen, RecorderFragments)

\* audioRecordingService.startRecording(): { success, error? }
RecorderResults ==
    [success : BOOLEAN, error : {{}} \cup {{t} : t \in RecorderTexts}]

\* authService.getInfo(): undefined, or user undefined, or uid undefined, "" or set
AuthInfos ==
    {{}} \cup {{[user |-> u]} :
                  u \in {{}} \cup {{[uid |-> i]} : i \in {{}, {<<>>}, {<<"u1">>}}}}

\* what a collaborator throws or rejects with: an Error, or some other value
Thrown ==
    {[isError |-> TRUE, message |-> m] : m \in {<<>>, <<"boom">>}}
        \cup {[isError |-> FALSE, message |-> <<"boom">>]}

NoException == [isError |-> FALSE, message |-> <<>>]

\* userInfo?.user?.uid, as a condition
HasUid(info) ==
    /\ info # {}
    /\ ValueOf(info).user # {}
    /\ Truthy(ValueOf(ValueOf(info).user).uid)

\* RecordingResult.create({ success, error })
RecordingResultCreate(success, error) == [success |-> success, error |-> error]

\* line 26 with the text compared as a whole instead of searched
MentionsFFmpeg_WholeText(r) == r.error = {<<"FFmpeg">>}

\* line 26: result.error && result.error.includes("FFmpeg")
MentionsFFmpeg(r) == Truthy(r.error) /\ includes(ValueOf(r.error), "FFmpeg")

\* line 35-38 with the error text dropped on success
PassThrough_DropErrorOnSuccess(r) ==
    RecordingResultCreate(r.success,
        IF r.error = {} \/ r.success THEN <<>> ELSE ValueOf(r.error))

\* line 35-38: { success: result.success, error: result.error ?? "" }
PassThrough(r) ==
    RecordingResultCreate(r.success, IF r.error = {} THEN <<>> ELSE ValueOf(r.error))

\* line 41: error instanceof Error ? error.message : "Unknown error occurred"
ErrorMessageOf(e) == IF e.isError THEN e.message ELSE UnknownErrorMsg

RInit ==
    /\ rpc = "start"
    /\ userInfo = {}
    /\ rResult = {}
    /\ exception = NoException
    /\ raisedBy = "none"
    /\ selectedOption = {}
    /\ recorderCalls = 0
    /\ tasks = <<>>
    /\ initTaskDone = FALSE
    /\ rTelemetry = 0
    /\ rTelemetryFailed = FALSE
    /\ dialogs = <<>>
    /\ authRequests = 0
    /\ returned = {}
    /\ thrown = {}

\* throw inside the try block: control goes to the catch
Raise(e, step) ==
    /\ exception' = e
    /\ raisedBy' = step
    /\ rpc' = "caught"

\* return RecordingResult.create(...)
Return(r) ==
    /\ returned' = {r}
    /\ rpc' = "done"

\* line 17-20: getInfo() and the sign-in check
GetInfo ==
    /\ UNCHANGED tvars
    /\ rpc = "start"
    /\ \/ \E info \in AuthInfos :
            /\ userInfo' = info
            /\ IF HasUid(info)
               THEN /\ rpc' = "recording"
                    /\ UNCHANGED <<exception, raisedBy>>
               ELSE Raise([isError |-> TRUE, message |-> SignInRequiredMsg], "signIn")
       \/ \E e \in Thrown :
            /\ Raise(e, "getInfo")
            /\ UNCHANGED userInfo
    /\ UNCHANGED <<rResult, selectedOption, recorderCalls, tasks, initTaskDone,
                   rTelemetry, rTelemetryFailed, dialogs, authRequests, returned, thrown>>

\* line 22: await audioRecordingService.startRecording()
StartBackend ==
    /\ UNCHANGED tvars
    /\ rpc = "recording"
    /\ recorderCalls' = recorderCalls + 1
    /\ \/ \E r \in RecorderResults :
            /\ rResult' = {r}
            /\ rpc' = "result"
            /\ UNCHANGED <<exception, raisedBy>>
       \/ \E e \in Thrown :
            /\ Raise(e, "recorder")
            /\ UNCHANGED rResult
    /\ UNCHANGED <<userInfo, selectedOption, tasks, initTaskDone, rTelemetry,
                   rTelemetryFailed, dialogs, authRequests, returned, thrown>>

\* line 24-38: telemetry on success, the FFmpeg branch, or the plain result
HandleResult ==
    /\ UNCHANGED tvars
    /\ rpc = "result"
    /\ LET result == ValueOf(rResult)
       IN  IF result.success
           THEN \/ /\ rTelemetry' = rTelemetry + 1
                   /\ Return(PassThrough(result))
                   /\ UNCHANGED <<exception, raisedBy, rTelemetryFailed>>
                \/ \E e \in Thrown :
                   /\ rTelemetryFailed' = TRUE
                   /\ Raise(e, "telemetry")
                   /\ UNCHANGED <<rTelemetry, returned>>
           ELSE IF MentionsFFmpeg(result)
           THEN /\ rpc' = "initTask"
                /\ UNCHANGED <<exception, raisedBy, rTelemetry, rTelemetryFailed, returned>>
           ELSE /\ Return(PassThrough(result))
                /\ UNCHANGED <<exception, raisedBy, rTelemetry, rTelemetryFailed>>
    /\ UNCHANGED <<userInfo, rResult, selectedOption, recorderCalls, tasks,
                   initTaskDone, dialogs, authRequests, thrown>>

\* line 28-32: await controller.initTask(result.error), then the FFmpeg result
InitTask ==
    /\ UNCHANGED tvars
    /\ rpc = "initTask"
    /\ tasks' = Append(tasks, ValueOf(ValueOf(rResult).error))
    /\ \/ /\ initTaskDone' = TRUE
          /\ Return(RecordingResultCreate(FALSE, FFmpegMissingMsg))
          /\ UNCHANGED <<exception, raisedBy>>
       \/ \E e \in Thrown :
          /\ Raise(e, "initTask")
          /\ UNCHANGED <<initTaskDone, returned>>
    /\ UNCHANGED <<userInfo, rResult, selectedOption, recorderCalls, rTelemetry,
                   rTelemetryFailed, dialogs, authRequests, thrown>>

\* line 39-57: the catch block up to the dialog's answer
ShowMessage ==
    /\ UNCHANGED tvars
    /\ rpc = "caught"
    /\ dialogs' = Append(dialogs,
           [type |-> "ERROR",
            message |-> DialogPrefix \o ErrorMessageOf(exception),
            items |-> <<signInAction>>])
    /\ \/ \E action \in {{}, {signInAction}} :
            /\ selectedOption' = action
            /\ IF action = {signInAction}
               THEN /\ rpc' = "authRequest"
                    /\ UNCHANGED returned
               ELSE Return(RecordingResultCreate(FALSE, ErrorMessageOf(exception)))
            /\ UNCHANGED thrown
       \/ \E e \in Thrown :
            /\ thrown' = {e}
            /\ rpc' = "done"
            /\ UNCHANGED <<selectedOption, returned>>
    /\ UNCHANGED <<userInfo, rResult, exception, raisedBy, recorderCalls, tasks,
                   initTaskDone, rTelemetry, rTelemetryFailed, authRequests>>

\* line 50-57: await createAuthRequest(), then the failure result
CreateAuthRequest ==
    /\ UNCHANGED tvars
    /\ rpc = "authRequest"
    /\ authRequests' = authRequests + 1
    /\ \/ /\ Return(RecordingResultCreate(FALSE, ErrorMessageOf(exception)))
          /\ UNCHANGED thrown
       \/ \E e \in Thrown :
          /\ thrown' = {e}
          /\ rpc' = "done"
          /\ UNCHANGED returned
    /\ UNCHANGED <<userInfo, rResult, exception, raisedBy, selectedOption,
                   recorderCalls, tasks, initTaskDone, rTelemetry, rTelemetryFailed,
                   dialogs>>

startRecording ==
    GetInfo \/ StartBackend \/ HandleResult \/ InitTask \/ ShowMessage \/ CreateAuthRequest

\* ---------------------------------------------------------- specifications

\* one call of transcribeAudio
InitTranscribe == TInit /\ RInit

SpecTranscribe == InitTranscribe /\ [][transcribeAudio]_vars

\* one call of startRecording
InitRecording == RInit /\ TInit /\ language = {}

SpecRecording == InitRecording /\ [][startRecording]_vars

\* ------------------------------------------ the classification, as specified

\* the message the classifier works on: the body's error, else the body's
\* message, else the error's own message
ServerMessage(e) ==
    CASE e.dataError # {} /\ e.dataError # {<<>>} -> ValueOf(e.dataError)
      [] OTHER ->
            IF e.dataMessage # {} /\ e.dataMessage # {<<>>}
            THEN ValueOf(e.dataMessage)
            ELSE e.message

HasNetworkSubstring(m) ==
    \E i \in DOMAIN m :
        m[i] \in {"ENOTFOUND", "ECONNREFUSED", "ETIMEDOUT", "ECONNRESET", "Network Error"}

\* the first matching row of the network rows of the rule table
FirstNetworkRule(m) ==
    CASE includes(m, "ENOTFOUND") -> NoInternetMsg
      [] ~includes(m, "ENOTFOUND") /\ includes(m, "ECONNREFUSED") -> CannotConnectMsg
      [] /\ ~includes(m, "ENOTFOUND") /\ ~includes(m, "ECONNREFUSED")
         /\ (includes(m, "ETIMEDOUT") \/ includes(m, "ECONNRESET")) -> TimedOutMsg
      [] OTHER -> NetworkErrorMsg

\* m mentions phrase, compared case-insensitively
Mentions(m, phrase) == \E i \in DOMAIN m : LowerFragment(m[i]) = phrase

\* the status-400 rows of the rule table, first match first
BadRequestRows(m) ==
    CASE Mentions(m, "insufficient balance") \/ Mentions(m, "insufficient credits")
            -> InsufficientCreditsMsg
      [] /\ ~(Mentions(m, "insufficient balance") \/ Mentions(m, "insufficient credits"))
         /\ (Mentions(m, "invalid audio") \/ Mentions(m, "invalid format"))
            -> InvalidAudioMsg
      [] /\ ~(Mentions(m, "insufficient balance") \/ Mentions(m, "insufficient credits"))
         /\ ~(Mentions(m, "invalid audio") \/ Mentions(m, "invalid format"))
         /\ Mentions(m, "exceeds") /\ Mentions(m, "limit")
            -> m
      [] OTHER -> IF m = <<>> THEN InvalidRequestMsg ELSE m

Failed(msg) == {[text |-> {}, error |-> {msg}]}

Classified == tpc = "done" /\ tError.kind # "none"

\* the backend's error text mentions FFmpeg
BackendMentionsFFmpeg ==
    /\ rResult # {}
    /\ ValueOf(rResult).error # {}
    /\ \E i \in DOMAIN ValueOf(ValueOf(rResult).error) :
           ValueOf(ValueOf(rResult).error)[i] = "FFmpeg"

BackendText == ValueOf(ValueOf(rResult).error)

\* the text the catch block reports for the caught exception
CaughtMessage == IF exception.isError THEN exception.message ELSE UnknownErrorMsg

NotSignedIn ==
    /\ rpc # "start"
    /\ raisedBy # "getInfo"
    /\ \/ userInfo = {}
       \/ \E u \in userInfo :
            \/ u.user = {}
            \/ \E w \in u.user : w.uid = {} \/ w.uid = {<<>>}

\* ------------------------------------------------------------------ claims

\* C1: a startRecording call whose getInfo() yields no signed-in subject
\* identifier never invokes the recorder backend, creates no assistance task,
\* and returns success=false with the sign-in message.
C1_NoUidFailsWithSignIn ==
    NotSignedIn =>
        /\ recorderCalls = 0
        /\ tasks = <<>>
        /\ rpc = "done" =>
              returned = {[success |-> FALSE, error |-> SignInRequiredMsg]}

\* C2 as stated: whenever the backend's result carries an error text that
\* contains "FFmpeg", initTask is called exactly once with that text and the
\* call returns success=false with the fixed message, which differs from the
\* backend's text.
C2_Original ==
    rpc = "done" /\ BackendMentionsFFmpeg =>
        /\ tasks = <<BackendText>>
        /\ returned = {[success |-> FALSE, error |-> FFmpegMissingMsg]}
        /\ FFmpegMissingMsg # BackendText

\* C2 amended: when the backend reports success=false with an error text that
\* contains "FFmpeg", initTask is called exactly once, with that text, and if
\* initTask completes the call returns success=false with the fixed message;
\* when the backend reports success=true no task is created, whatever its
\* error text.
C2_FFmpegFailureCreatesOneTask ==
    /\ BackendMentionsFFmpeg /\ ~ValueOf(rResult).success /\ rpc \notin {"result", "initTask"} =>
          /\ tasks = <<BackendText>>
          /\ rTelemetry = 0
          /\ rpc = "done" /\ initTaskDone =>
                returned = {[success |-> FALSE, error |-> FFmpegMissingMsg]}
    /\ rResult # {} /\ ValueOf(rResult).success => tasks = <<>>

C2_Witness ==
    /\ rpc = "done"
    /\ BackendMentionsFFmpeg
    /\ ~ValueOf(rResult).success
    /\ Len(BackendText) = 2
    /\ tasks = <<BackendText>>
    /\ returned = {[success |-> FALSE, error |-> FFmpegMissingMsg]}

\* C3: every transcribeAudio call returns an outcome in which exactly one of
\* text and error is populated.
C3_ExactlyOneOfTextAndError ==
    tpc = "done" =>
        /\ tOutcome # {}
        /\ \A o \in tOutcome : (o.text # {}) <=> (o.error = {})

\* C4: no startRecording call propagates an exception; when a step raised,
\* exactly one dialog offering the sign-in action was shown, an authentication
\* request was made iff the user selected it, and the call returned
\* success=false with the exception's message.
C4_NeverPropagates ==
    rpc = "done" =>
        /\ thrown = {}
        /\ raisedBy # "none" =>
              /\ Len(dialogs) = 1
              /\ dialogs[1].items = <<signInAction>>
              /\ (authRequests = 1) <=> (selectedOption = {signInAction})
              /\ returned = {[success |-> FALSE, error |-> CaughtMessage]}

\* C5, for startRecording: when the recorder backend reported success the call
\* returns success=true with the backend's error field, with no dialog and no
\* authentication request, even if emitting "recording started" fails.
C5_RecordingHalf ==
    rpc = "done" /\ rResult # {} /\ ValueOf(rResult).success =>
        /\ returned =
              {[success |-> TRUE,
                error |-> IF ValueOf(rResult).error = {} THEN <<>> ELSE BackendText]}
        /\ dialogs = <<>>
        /\ authRequests = 0

\* C5, for transcribeAudio: when the endpoint answered with an object the call
\* returns { text } even if emitting the completion event fails.
C5_TranscribeHalf ==
    tpc = "done" /\ tResult # {} =>
        tOutcome = {[text |-> ValueOf(tResult).text, error |-> {}]}

\* C5: a failure of telemetry emission never changes the result of the
\* primary operation.
C5_TelemetryNeverChangesResult == C5_RecordingHalf /\ C5_TranscribeHalf

\* C6 as stated: every returned RecordingResult has an empty error when
\* success is true and a non-empty message when success is false.
C6_Original ==
    \A r \in returned : IF r.success THEN r.error = <<>> ELSE r.error # <<>>

\* C6 amended: every returned RecordingResult is the caught exception's
\* message with success=false, or the fixed FFmpeg message with success=false,
\* or the backend's success flag with the backend's error text (empty when the
\* backend gave none); so error is empty on success iff the backend gave no
\* or an empty error text, and non-empty on a backend failure iff the backend
\* gave a non-empty one.
C6_ResultFollowsItsBranch ==
    \A r \in returned :
        /\ raisedBy # "none" => r = [success |-> FALSE, error |-> CaughtMessage]
        /\ raisedBy = "none" /\ BackendMentionsFFmpeg /\ ~ValueOf(rResult).success =>
              r = [success |-> FALSE, error |-> FFmpegMissingMsg]
        /\ raisedBy = "none" /\ ~(BackendMentionsFFmpeg /\ ~ValueOf(rResult).success) =>
              /\ r.success = ValueOf(rResult).success
              /\ r.error = IF ValueOf(rResult).error = {} THEN <<>> ELSE BackendText

C6_Witness ==
    /\ rpc = "done"
    /\ raisedBy = "none"
    /\ \E r \in returned : r.success /\ r.error = <<"x">>
    /\ ValueOf(rResult).error = {<<"x">>}

\* C7: in the axios branch the network-substring rules come before every
\* status rule: a message with "ENOTFOUND" gives the no-internet message
\* whatever the status (and so does it for an error that is not an axios
\* error), and status 401 gives the reauthenticate message unless the message
\* has a network substring, and then the first matching network rule's.
C7_NetworkBeforeStatus ==
    Classified =>
        /\ includes(ServerMessage(tError), "ENOTFOUND") => tOutcome = Failed(NoInternetMsg)
        /\ isAxiosError(tError) /\ tError.hasResponse /\ tError.status = 401 =>
              tOutcome = Failed(IF HasNetworkSubstring(ServerMessage(tError))
                                THEN FirstNetworkRule(ServerMessage(tError))
                                ELSE ReauthenticateMsg)

C7_Witness ==
    /\ Classified
    /\ tError.hasResponse /\ tError.status = 401
    /\ tError.dataMessage = {<<"ECONNRESET", "Network Error">>}
    /\ tError.dataError = {<<>>}
    /\ tOutcome = Failed(TimedOutMsg)

\* C8: status 400 with no network substring in the message: the first
\* matching sub-rule decides, compared case-insensitively: insufficient
\* balance/credits, then invalid audio/format, then exceeds+limit (the server
\* message verbatim), then the server message, or the generic text when empty.
C8_BadRequestRules ==
    /\ Classified
    /\ isAxiosError(tError) /\ tError.hasResponse /\ tError.status = 400
    /\ ~HasNetworkSubstring(ServerMessage(tError))
    => tOutcome = Failed(BadRequestRows(ServerMessage(tError)))

C8_Witness ==
    /\ Classified
    /\ tError.hasResponse /\ tError.status = 400
    /\ tError.dataError = {<<"Insufficient Credits", "Invalid Format">>}
    /\ tOutcome = Failed(InsufficientCreditsMsg)

\* C9 as stated: an error with no structured HTTP response gets the network
\* checks of the rule table, in its order and with its messages, and
\* "Network error: " + raw message when none matches.
C9_Original ==
    Classified /\ ~tError.hasResponse =>
        tOutcome = Failed(IF HasNetworkSubstring(tError.message)
                          THEN FirstNetworkRule(tError.message)
                          ELSE NetworkErrorPrefix \o tError.message)

\* C9 amended: an error that is not an axios error is checked in this order:
\* ENOTFOUND gives no-internet; ECONNREFUSED or "Network Error" gives
\* cannot-connect; ETIMEDOUT or ECONNRESET gives timed-out; anything else
\* gives "Network error: " + raw message.  An axios error without a response
\* gets the network rows of the rule table, and "Transcription failed: " +
\* raw message when none matches.
C9_NoResponseRules ==
    Classified /\ ~tError.hasResponse =>
        LET raw == tError.message
        IN  IF isAxiosError(tError)
            THEN tOutcome = Failed(IF HasNetworkSubstring(raw)
                                   THEN FirstNetworkRule(raw)
                                   ELSE TranscriptionFailedPrefix \o raw)
            ELSE tOutcome = Failed(
                    CASE includes(raw, "ENOTFOUND") -> NoInternetMsg
                      [] /\ ~includes(raw, "ENOTFOUND")
                         /\ (includes(raw, "ECONNREFUSED") \/ includes(raw, "Network Error"))
                            -> CannotConnectMsg
                      [] /\ ~includes(raw, "ENOTFOUND")
                         /\ ~(includes(raw, "ECONNREFUSED") \/ includes(raw, "Network Error"))
                         /\ (includes(raw, "ETIMEDOUT") \/ includes(raw, "ECONNRESET"))
                            -> TimedOutMsg
                      [] OTHER -> NetworkErrorPrefix \o raw)

C9_Witness ==
    /\ Classified
    /\ tError.kind = "Error"
    /\ tError.message = <<"ETIMEDOUT", "Network Error">>
    /\ tOutcome = Failed(CannotConnectMsg)

\* C10 as stated: status 400 from a structured response whose message also
\* has a network substring resolves through the status-400 rows, not through
\* a network rule.
C10_Original ==
    /\ Classified
    /\ isAxiosError(tError) /\ tError.hasResponse /\ tError.status = 400
    /\ HasNetworkSubstring(ServerMessage(tError))
    => tOutcome = Failed(BadRequestRows(ServerMessage(tError)))

\* C10 amended: status 400 from a structured response whose message also has
\* a network substring resolves through the first matching network rule, never
\* through the status-400 rows; so does an axios error without a response.
C10_NetworkRuleWinsOver400 ==
    /\ Classified
    /\ isAxiosError(tError)
    /\ tError.hasResponse => tError.status = 400
    /\ HasNetworkSubstring(ServerMessage(tError))
    => tOutcome = Failed(FirstNetworkRule(ServerMessage(tError)))

C10_Witness ==
    /\ Classified
    /\ tError.hasResponse /\ tError.status = 400
    /\ tError.dataError = {<<"Insufficient Credits", "ECONNREFUSED">>}
    /\ tOutcome = Failed(CannotConnectMsg)

====
